---- MODULE Spec2Model ----
(***************************************************************************)
(* Model of src/legendary_rotary_phone.py: the RotaryPhone state object.   *)
(*                                                                         *)
(* A Python str is modelled as a sequence of characters, a character as a  *)
(* one-letter TLA+ string (the non-ASCII decimal digit U+0663 by its code  *)
(* point name).  dialed_number is a list of str, so it is a sequence of    *)
(* sequences; call_log is a list of str.                                   *)
(***************************************************************************)
EXTENDS Integers, Sequences, FiniteSets, TLC

VARIABLES dialed_number, is_connected, call_log, op, result, events,
          pc, at, digit_index, interactive_number

vars == <<dialed_number, is_connected, call_log, op, result, events,
          pc, at, digit_index, interactive_number>>

\* the frame of main: the line of main being executed, the line reached inside
\* the method it called, the position of dial_number's loop, the line read
main_frame == <<pc, at, digit_index, interactive_number>>

fields == <<dialed_number, is_connected, call_log>>

(* ---- bounds ---- *)
MaxLen == 1      \* every argument string of up to MaxLen characters is drawn

MaxChars == 4    \* most characters the phone may hold, buffer and call_log together

(* ---- characters and strings ---- *)
ASCII_DIGITS == {"0", "1", "2", "3", "4", "5", "6", "7", "8", "9"}

ARABIC_INDIC_THREE == "U+0663"

\* what \d matches in a str pattern: every Unicode decimal digit (category Nd)
UnicodeDecimal == ASCII_DIGITS \cup {ARABIC_INDIC_THREE}

\* the characters argument strings are drawn from
Alphabet == {"0", "1", "A", "\n", ARABIC_INDIC_THREE}

\* longer arguments that are always drawn: two digits in both orders, digits
\* before and after a newline, a letter and a non-ASCII decimal digit
LongInputs ==
  { <<"1", "0">>, <<"0", "1">>,
    <<"1", "\n">>, <<"\n", "1">>,
    <<"1", "A">>, <<"A", "1">>,
    <<"1", ARABIC_INDIC_THREE>>, <<ARABIC_INDIC_THREE, "1">>,
    <<ARABIC_INDIC_THREE, "\n">> }

Strings == UNION {[1..k -> Alphabet] : k \in 0..MaxLen} \cup LongInputs

\* the default argument of __init__ (phone_number = None); not a str
None == <<"None">>

(* ---- outcomes of an operation: a returned value or a raised exception ---- *)
Returned(v) == [type |-> "return", msg |-> v]

ReturnedNone == Returned("None")

ReturnedTrue == Returned("True")

InvalidNumber == [type |-> "ValueError", msg |-> "Invalid phone number"]

InvalidDigit == [type |-> "ValueError", msg |-> "Invalid digit"]

AlreadyConnected == [type |-> "RuntimeError", msg |-> "Cannot dial while already connected"]

NothingDialed == [type |-> "RuntimeError", msg |-> "Cannot initiate a call. No digits dialed"]

(* ---- what an operation does besides returning: sleeps and the append ---- *)
Sleep(ms) == [kind |-> "sleep", ms |-> ms]

Appended == [kind |-> "append", ms |-> 0]

(* ---- class constants ---- *)
DELAY_PER_UNIT == 100

\* INTER_DIGIT_DELAY = 0.5 seconds, in milliseconds
INTER_DIGIT_DELAY == 500

\* variant: the '0' entry is missing from the table
PULSE_MAP_no_zero ==
  (<<"1">> :> 1) @@ (<<"2">> :> 2) @@ (<<"3">> :> 3) @@ (<<"4">> :> 4) @@
  (<<"5">> :> 5) @@ (<<"6">> :> 6) @@ (<<"7">> :> 7) @@ (<<"8">> :> 8) @@
  (<<"9">> :> 9)


PULSE_MAP ==
  (<<"1">> :> 1) @@ (<<"2">> :> 2) @@ (<<"3">> :> 3) @@ (<<"4">> :> 4) @@
  (<<"5">> :> 5) @@ (<<"6">> :> 6) @@ (<<"7">> :> 7) @@ (<<"8">> :> 8) @@
  (<<"9">> :> 9) @@ (<<"0">> :> 10)

(* ---- pure helpers ---- *)
\* re.match(r'^\d+$', number): one or more \d from the start, then $, which
\* matches at the end of the string and also just before a final newline
re_match(number) ==
  \E k \in 1..Len(number) :
     /\ \A i \in 1..k : number[i] \in UnicodeDecimal
     /\ \/ k = Len(number)
        \/ k = Len(number) - 1 /\ number[Len(number)] = "\n"

\* _validate_phone_number: the exception it raises, or ReturnedNone
_validate_phone_number(number) ==
  IF ~re_match(number) THEN InvalidNumber ELSE ReturnedNone

\* list(s) for a str s: the list of its one-character strings
list(s) == [i \in 1..Len(s) |-> <<s[i]>>]

\* variant: joins the list back to front
RECURSIVE join_reversed(_)
join_reversed(l) == IF l = <<>> THEN <<>> ELSE join_reversed(Tail(l)) \o Head(l)

\* ''.join(l) for a list of str
RECURSIVE join(_)
join(l) == IF l = <<>> THEN <<>> ELSE Head(l) \o join(Tail(l))

get_dialed_number == join(dialed_number)

\* number of characters held in a list of str
RECURSIVE TotalLen(_)
TotalLen(l) == IF l = <<>> THEN 0 ELSE Len(Head(l)) + TotalLen(Tail(l))

\* the buffer buf and the log fit the bound on the characters held
Fits(buf, log) == TotalLen(buf) + TotalLen(log) <= MaxChars

\* the object exists: __init__ did not raise
constructed == ~(op = "__init__" /\ result.type # "return")

(* ---- construction ---- *)
\* RotaryPhone(phone_number): the state after __init__, or the raised error
init_with(phone_number) ==
  /\ is_connected = FALSE
  /\ call_log = <<>>
  /\ op = "__init__"
  /\ events = <<>>
  /\ IF phone_number # None /\ phone_number # <<>>
     THEN IF _validate_phone_number(phone_number) # ReturnedNone
          THEN /\ dialed_number = <<>>
               /\ result = _validate_phone_number(phone_number)
          ELSE /\ dialed_number = list(phone_number)
               /\ result = ReturnedNone
     ELSE /\ dialed_number = <<>>
          /\ result = ReturnedNone

\* no main is running: the object is used through its methods
no_main ==
  /\ pc = 0
  /\ at = 0
  /\ digit_index = 0
  /\ interactive_number = None

Init ==
  /\ \E phone_number \in Strings \cup {None} : init_with(phone_number)
  /\ no_main

(* ---- operations ---- *)
\* variant: the division by 1000 is an integer division, the unit is lost
delay_ms_truncated(digit) == (PULSE_MAP[digit] * DELAY_PER_UNIT) \div 1000

\* delay_seconds of dial_digit, in milliseconds: (pulses * DELAY_PER_UNIT) / 1000 s
delay_ms(digit) == PULSE_MAP[digit] * DELAY_PER_UNIT

\* the test of line 96, made after the append: buf is the buffer with digit on it
pause_taken(buf, digit) == digit # buf[Len(buf)] \/ Len(buf) > 1

\* what a successful dial_digit does, in order: lines 90, 93, 96-97
dial_digit_events(buf, digit) ==
  <<Sleep(delay_ms(digit)), Appended>>
    \o (IF pause_taken(buf, digit) THEN <<Sleep(INTER_DIGIT_DELAY)>> ELSE <<>>)

\* variant: the is_connected check is missing
dial_digit_body_unchecked(buf, digit) ==
  IF digit \notin DOMAIN PULSE_MAP
  THEN [buf |-> buf, out |-> InvalidDigit]
  ELSE [buf |-> Append(buf, digit), out |-> ReturnedNone]

\* the body of dial_digit on a buffer: the new buffer and the outcome
dial_digit_body(buf, digit) ==
  IF is_connected
  THEN [buf |-> buf, out |-> AlreadyConnected]
  ELSE IF digit \notin DOMAIN PULSE_MAP
       THEN [buf |-> buf, out |-> InvalidDigit]
       ELSE [buf |-> Append(buf, digit), out |-> ReturnedNone]

dial_digit(digit) ==
  /\ constructed
  /\ op' = "dial_digit"
  /\ \E r \in {dial_digit_body(dialed_number, digit)} :
       /\ dialed_number' = r.buf
       /\ result' = r.out
       /\ r.buf = dialed_number \/ Fits(r.buf, call_log)
       /\ events' = IF r.out = ReturnedNone
                    THEN dial_digit_events(r.buf, digit) ELSE <<>>
  /\ UNCHANGED <<is_connected, call_log>>
  /\ UNCHANGED main_frame

\* the loop of dial_number from character i on: stops at the first raise
RECURSIVE dial_loop(_, _, _)
dial_loop(buf, phone_number, i) ==
  IF i > Len(phone_number)
  THEN [buf |-> buf, out |-> ReturnedNone]
  ELSE LET r == dial_digit_body(buf, <<phone_number[i]>>) IN
         IF r.out # ReturnedNone THEN r
         ELSE dial_loop(r.buf, phone_number, i + 1)

\* what that loop does, in order: the events of each dial_digit that returns
RECURSIVE dial_loop_events(_, _, _)
dial_loop_events(buf, phone_number, i) ==
  IF i > Len(phone_number)
  THEN <<>>
  ELSE LET r == dial_digit_body(buf, <<phone_number[i]>>) IN
         IF r.out # ReturnedNone THEN <<>>
         ELSE dial_digit_events(r.buf, <<phone_number[i]>>)
                \o dial_loop_events(r.buf, phone_number, i + 1)

\* variant: a failing loop rolls the buffer back
dial_number_body_atomic(buf, phone_number) ==
  IF _validate_phone_number(phone_number) # ReturnedNone
  THEN [buf |-> buf, out |-> InvalidNumber]
  ELSE LET r == dial_loop(buf, phone_number, 1) IN
         IF r.out # ReturnedNone THEN [buf |-> buf, out |-> r.out] ELSE r


dial_number_body(buf, phone_number) ==
  IF _validate_phone_number(phone_number) # ReturnedNone
  THEN [buf |-> buf, out |-> InvalidNumber]
  ELSE dial_loop(buf, phone_number, 1)

dial_number(phone_number) ==
  /\ constructed
  /\ op' = "dial_number"
  /\ \E r \in {dial_number_body(dialed_number, phone_number)} :
       /\ dialed_number' = r.buf
       /\ result' = r.out
       /\ r.buf = dialed_number \/ Fits(r.buf, call_log)
       /\ events' = IF _validate_phone_number(phone_number) # ReturnedNone
                    THEN <<>> ELSE dial_loop_events(dialed_number, phone_number, 1)
  /\ UNCHANGED <<is_connected, call_log>>
  /\ UNCHANGED main_frame

\* variant: the call is not recorded in the log
call_unlogged ==
  /\ constructed
  /\ op' = "call"
  /\ IF dialed_number = <<>>
     THEN /\ result' = NothingDialed
          /\ events' = <<>>
          /\ UNCHANGED fields
     ELSE /\ events' = <<Sleep(1000)>>
          /\ is_connected' = TRUE
          /\ result' = ReturnedTrue
          /\ UNCHANGED <<dialed_number, call_log>>
  /\ UNCHANGED main_frame

\* variant: a call during a call is rejected
call_once ==
  /\ constructed
  /\ op' = "call"
  /\ IF dialed_number = <<>> \/ is_connected
     THEN /\ result' = IF is_connected THEN AlreadyConnected ELSE NothingDialed
          /\ events' = <<>>
          /\ UNCHANGED fields
     ELSE /\ Fits(dialed_number, Append(call_log, join(dialed_number)))
          /\ events' = <<Sleep(1000)>>
          /\ is_connected' = TRUE
          /\ call_log' = Append(call_log, join(dialed_number))
          /\ result' = ReturnedTrue
          /\ UNCHANGED dialed_number
  /\ UNCHANGED main_frame

\* variant: the empty-buffer check is missing
call_unguarded ==
  /\ constructed
  /\ op' = "call"
  /\ Len(call_log) < MaxChars
  /\ is_connected' = TRUE
  /\ call_log' = Append(call_log, join(dialed_number))
  /\ result' = ReturnedTrue
  /\ events' = <<Sleep(1000)>>
  /\ UNCHANGED dialed_number
  /\ UNCHANGED main_frame


call ==
  /\ constructed
  /\ op' = "call"
  /\ IF dialed_number = <<>>
     THEN /\ result' = NothingDialed
          /\ events' = <<>>
          /\ UNCHANGED fields
     ELSE /\ Fits(dialed_number, Append(call_log, join(dialed_number)))
          /\ events' = <<Sleep(1000)>>
          /\ is_connected' = TRUE
          /\ call_log' = Append(call_log, join(dialed_number))
          /\ result' = ReturnedTrue
          /\ UNCHANGED dialed_number
  /\ UNCHANGED main_frame

\* variant: the buffer is not cleared on hang up
hang_up_keeps_digits ==
  /\ constructed
  /\ op' = "hang_up"
  /\ result' = ReturnedNone
  /\ events' = IF is_connected THEN <<Sleep(500)>> ELSE <<>>
  /\ IF ~is_connected
     THEN UNCHANGED fields
     ELSE /\ is_connected' = FALSE
          /\ UNCHANGED <<dialed_number, call_log>>
  /\ UNCHANGED main_frame


hang_up ==
  /\ constructed
  /\ op' = "hang_up"
  /\ result' = ReturnedNone
  /\ events' = IF is_connected THEN <<Sleep(500)>> ELSE <<>>
  /\ IF ~is_connected
     THEN UNCHANGED fields
     ELSE /\ is_connected' = FALSE
          /\ dialed_number' = <<>>
          /\ UNCHANGED call_log
  /\ UNCHANGED main_frame

\* variant: clear does nothing during a call
clear_unless_connected ==
  /\ constructed
  /\ op' = "clear"
  /\ result' = ReturnedNone
  /\ events' = <<>>
  /\ dialed_number' = IF is_connected THEN dialed_number ELSE <<>>
  /\ UNCHANGED <<is_connected, call_log>>
  /\ UNCHANGED main_frame

\* variant: clear also empties the call log
clear_all ==
  /\ constructed
  /\ op' = "clear"
  /\ result' = ReturnedNone
  /\ dialed_number' = <<>>
  /\ call_log' = <<>>
  /\ events' = <<>>
  /\ UNCHANGED is_connected
  /\ UNCHANGED main_frame

\* variant: clear also drops the connection
clear_disconnects ==
  /\ constructed
  /\ op' = "clear"
  /\ result' = ReturnedNone
  /\ dialed_number' = <<>>
  /\ is_connected' = FALSE
  /\ events' = <<>>
  /\ UNCHANGED call_log
  /\ UNCHANGED main_frame


clear ==
  /\ constructed
  /\ op' = "clear"
  /\ result' = ReturnedNone
  /\ dialed_number' = <<>>
  /\ events' = <<>>
  /\ UNCHANGED <<is_connected, call_log>>
  /\ UNCHANGED main_frame

status ==
  /\ constructed
  /\ op' = "status"
  /\ result' = ReturnedNone
  /\ events' = <<>>
  /\ UNCHANGED fields
  /\ UNCHANGED main_frame

validate(number) ==
  /\ constructed
  /\ op' = "_validate_phone_number"
  /\ result' = _validate_phone_number(number)
  /\ events' = <<>>
  /\ UNCHANGED fields
  /\ UNCHANGED main_frame

Next ==
  \/ \E digit \in Strings : dial_digit(digit)
  \/ \E phone_number \in Strings : dial_number(phone_number)
  \/ \E number \in Strings : validate(number)
  \/ call
  \/ hang_up
  \/ clear
  \/ status

Spec == Init /\ [][Next]_vars

(* ---- main: the demonstration sequence, one step per line reached ---- *)
KeyboardInterruptRaised == [type |-> "KeyboardInterrupt", msg |-> ""]

\* characters str.strip() removes
Whitespace == {" ", "\n"}

RECURSIVE lstrip(_)
lstrip(s) == IF s # <<>> /\ Head(s) \in Whitespace THEN lstrip(Tail(s)) ELSE s

RECURSIVE rstrip(_)
rstrip(s) ==
  IF s # <<>> /\ s[Len(s)] \in Whitespace THEN rstrip(SubSeq(s, 1, Len(s) - 1)) ELSE s

strip(s) == rstrip(lstrip(s))

\* the lines input() can return: no newline inside; some with spaces around
InputLines ==
  {s \in Strings : \A k \in 1..Len(s) : s[k] # "\n"}
    \cup { <<" ">>, <<" ", "1">>, <<"1", " ">>, <<" ", "A", " ">> }

Stmt(call_, arg_, ms_, next_) == [call |-> call_, arg |-> arg_, ms |-> ms_, next |-> next_]

\* the statements of main by line: what is called, with what, and the next line
MainProgram ==
  (200 :> Stmt("dial_digit", <<"5">>, 0, 201)) @@
  (201 :> Stmt("dial_digit", <<"5">>, 0, 202)) @@
  (202 :> Stmt("dial_digit", <<"5">>, 0, 203)) @@
  (203 :> Stmt("dial_digit", <<"1">>, 0, 204)) @@
  (204 :> Stmt("dial_digit", <<"2">>, 0, 205)) @@
  (205 :> Stmt("dial_digit", <<"3">>, 0, 206)) @@
  (206 :> Stmt("dial_digit", <<"4">>, 0, 209)) @@
  (209 :> Stmt("status", <<>>, 0, 212)) @@
  (212 :> Stmt("call", <<>>, 0, 213)) @@
  (213 :> Stmt("sleep", <<>>, 2000, 214)) @@
  (214 :> Stmt("hang_up", <<>>, 0, 218)) @@
  (218 :> Stmt("dial_number", <<"2", "1", "2", "5", "5", "5", "1", "2", "3", "4">>, 0, 219)) @@
  (219 :> Stmt("call", <<>>, 0, 220)) @@
  (220 :> Stmt("sleep", <<>>, 2000, 221)) @@
  (221 :> Stmt("hang_up", <<>>, 0, 224)) @@
  (224 :> Stmt("status", <<>>, 0, 229)) @@
  (229 :> Stmt("dial_digit", <<"A">>, 0, 234)) @@
  (234 :> Stmt("call", <<>>, 0, 240)) @@
  (240 :> Stmt("input", <<>>, 0, 242)) @@
  (242 :> Stmt("if", <<>>, 0, 244)) @@
  (244 :> Stmt("dial_number", <<>>, 0, 245)) @@
  (245 :> Stmt("call", <<>>, 0, 246)) @@
  (246 :> Stmt("sleep", <<>>, 1000, 247)) @@
  (247 :> Stmt("hang_up", <<>>, 0, 252)) @@
  (252 :> Stmt("status", <<>>, 0, 253)) @@
  (257 :> Stmt("hang_up", <<>>, 0, 258))

\* first line of each method's body
Entry ==
  [m \in {"dial_digit", "dial_number", "call", "hang_up", "status"} |->
     CASE m = "dial_digit" -> 74
       [] m = "dial_number" -> 110
       [] m = "call" -> 128
       [] m = "hang_up" -> 148
       [] m = "status" -> 176]

\* variant: the interactive block catches RuntimeError instead of ValueError
caught_interactive_runtime(line, exc) ==
  \/ line = 229 /\ exc.type = "ValueError"
  \/ line = 234 /\ exc.type = "RuntimeError"
  \/ line \in 244..247 /\ exc.type = "RuntimeError"

\* the except clauses of lines 230, 235 and 248
caught(line, exc) ==
  \/ line = 229 /\ exc.type = "ValueError"
  \/ line = 234 /\ exc.type = "RuntimeError"
  \/ line \in 244..247 /\ exc.type = "ValueError"

\* where main goes on after an except clause has run
resume_after(line) == IF line = 229 THEN 234 ELSE IF line = 234 THEN 240 ELSE 252

\* the argument of the method main is in
current_arg == IF pc = 244 THEN interactive_number ELSE MainProgram[pc].arg

\* the argument of the dial_digit main or dial_number is in
current_digit ==
  IF MainProgram[pc].call = "dial_number"
  THEN <<current_arg[digit_index]>>
  ELSE current_arg

\* a method raises exc: an except clause of main takes it or it leaves main
raise(exc) ==
  /\ result' = exc
  /\ at' = 0
  /\ digit_index' = 0
  /\ IF caught(pc, exc)
     THEN pc' = resume_after(pc) /\ op' = op
     ELSE pc' = 258 /\ op' = "main"

\* the method main called returns v
return(v) ==
  /\ result' = v
  /\ at' = 0
  /\ digit_index' = 0
  /\ pc' = MainProgram[pc].next
  /\ op' = op

InitMain ==
  /\ dialed_number = <<>>
  /\ is_connected = FALSE
  /\ call_log = <<>>
  /\ op = "main"
  /\ result = ReturnedNone
  /\ events = <<>>
  /\ pc = 195
  /\ at = 0
  /\ digit_index = 0
  /\ interactive_number = None

\* line 195: phone = RotaryPhone()
main_construct ==
  /\ pc = 195
  /\ dialed_number' = <<>>
  /\ is_connected' = FALSE
  /\ call_log' = <<>>
  /\ op' = "__init__"
  /\ result' = ReturnedNone
  /\ events' = <<>>
  /\ pc' = 200
  /\ UNCHANGED <<at, digit_index, interactive_number>>

\* main calls a method of phone
main_enter ==
  /\ pc \in DOMAIN MainProgram
  /\ at = 0
  /\ MainProgram[pc].call \in DOMAIN Entry
  /\ at' = Entry[MainProgram[pc].call]
  /\ op' = MainProgram[pc].call
  /\ events' = <<>>
  /\ UNCHANGED <<fields, result, pc, digit_index, interactive_number>>

\* lines 213, 220, 246: time.sleep
main_sleep ==
  /\ pc \in DOMAIN MainProgram
  /\ MainProgram[pc].call = "sleep"
  /\ events' = <<Sleep(MainProgram[pc].ms)>>
  /\ pc' = MainProgram[pc].next
  /\ UNCHANGED <<fields, op, result, at, digit_index, interactive_number>>

\* line 240: input(...).strip()
main_input ==
  /\ pc = 240
  /\ \E line \in InputLines : interactive_number' = strip(line)
  /\ pc' = 242
  /\ UNCHANGED <<fields, op, result, events, at, digit_index>>

\* line 242: if interactive_number
main_if ==
  /\ pc = 242
  /\ pc' = IF interactive_number # <<>> THEN 244 ELSE 252
  /\ UNCHANGED <<fields, op, result, events, at, digit_index, interactive_number>>

\* dial_digit lines 74-83
dial_digit_check ==
  /\ at = 74
  /\ \E r \in {dial_digit_body(dialed_number, current_digit)} :
       IF r.out # ReturnedNone
       THEN raise(r.out)
       ELSE at' = 90 /\ UNCHANGED <<op, result, pc, digit_index>>
  /\ UNCHANGED <<fields, events, interactive_number>>

\* dial_digit lines 86-91
dial_digit_sleep ==
  /\ at = 90
  /\ events' = Append(events, Sleep(delay_ms(current_digit)))
  /\ at' = 93
  /\ UNCHANGED <<fields, op, result, pc, digit_index, interactive_number>>

\* dial_digit line 93
dial_digit_append ==
  /\ at = 93
  /\ dialed_number' = Append(dialed_number, current_digit)
  /\ events' = Append(events, Appended)
  /\ at' = 96
  /\ UNCHANGED <<is_connected, call_log, op, result, pc, digit_index, interactive_number>>

\* dial_digit lines 96-97 and the return, to main or to the loop of dial_number
dial_digit_pause ==
  /\ at = 96
  /\ events' = IF pause_taken(dialed_number, current_digit)
               THEN Append(events, Sleep(INTER_DIGIT_DELAY))
               ELSE events
  /\ IF MainProgram[pc].call = "dial_number"
     THEN at' = 115 /\ UNCHANGED <<op, result, pc, digit_index>>
     ELSE return(ReturnedNone)
  /\ UNCHANGED <<fields, interactive_number>>

\* dial_number line 110
dial_number_validate ==
  /\ at = 110
  /\ \E v \in {_validate_phone_number(current_arg)} :
       IF v # ReturnedNone
       THEN raise(v)
       ELSE at' = 115 /\ digit_index' = 0 /\ UNCHANGED <<op, result, pc>>
  /\ UNCHANGED <<fields, events, interactive_number>>

\* dial_number lines 115-116: the next character, or the end of the loop
dial_number_loop ==
  /\ at = 115
  /\ IF digit_index < Len(current_arg)
     THEN /\ digit_index' = digit_index + 1
          /\ at' = 74
          /\ UNCHANGED <<op, result, pc>>
     ELSE return(ReturnedNone)
  /\ UNCHANGED <<fields, events, interactive_number>>

\* call lines 128-136
call_check ==
  /\ at = 128
  /\ IF dialed_number = <<>>
     THEN raise(NothingDialed)
     ELSE at' = 137 /\ UNCHANGED <<op, result, pc, digit_index>>
  /\ UNCHANGED <<fields, events, interactive_number>>

\* call line 137: the ringing delay
call_ring ==
  /\ at = 137
  /\ events' = Append(events, Sleep(1000))
  /\ at' = 141
  /\ UNCHANGED <<fields, op, result, pc, digit_index, interactive_number>>

\* call line 141
call_connect ==
  /\ at = 141
  /\ is_connected' = TRUE
  /\ at' = 142
  /\ UNCHANGED <<dialed_number, call_log, op, result, events, pc, digit_index,
                 interactive_number>>

\* call lines 142-144
call_record ==
  /\ at = 142
  /\ call_log' = Append(call_log, join(dialed_number))
  /\ return(ReturnedTrue)
  /\ UNCHANGED <<dialed_number, is_connected, events, interactive_number>>

\* hang_up lines 148-153
hang_up_check ==
  /\ at = 148
  /\ IF ~is_connected
     THEN return(ReturnedNone)
     ELSE at' = 154 /\ UNCHANGED <<op, result, pc, digit_index>>
  /\ UNCHANGED <<fields, events, interactive_number>>

\* hang_up line 154
hang_up_sleep ==
  /\ at = 154
  /\ events' = Append(events, Sleep(500))
  /\ at' = 158
  /\ UNCHANGED <<fields, op, result, pc, digit_index, interactive_number>>

\* hang_up line 158
hang_up_disconnect ==
  /\ at = 158
  /\ is_connected' = FALSE
  /\ at' = 159
  /\ UNCHANGED <<dialed_number, call_log, op, result, events, pc, digit_index,
                 interactive_number>>

\* hang_up line 159
hang_up_clear ==
  /\ at = 159
  /\ dialed_number' = <<>>
  /\ return(ReturnedNone)
  /\ UNCHANGED <<is_connected, call_log, events, interactive_number>>

\* status lines 176-184
status_print ==
  /\ at = 176
  /\ return(ReturnedNone)
  /\ UNCHANGED <<fields, events, interactive_number>>

\* a KeyboardInterrupt arrives, anywhere before main has left its try block:
\* inside it the except clause of line 254 takes it, before it it leaves main
KeyboardInterrupt ==
  /\ pc \in 195..252
  /\ at' = 0
  /\ digit_index' = 0
  /\ IF pc >= 200
     THEN pc' = 255 /\ UNCHANGED <<op, result>>
     ELSE pc' = 258 /\ op' = "main" /\ result' = KeyboardInterruptRaised
  /\ UNCHANGED <<fields, events, interactive_number>>

\* line 255
handler_print ==
  /\ pc = 255
  /\ pc' = 256
  /\ UNCHANGED <<fields, op, result, events, at, digit_index, interactive_number>>

\* variant: the handler only reports, it does not hang up
handler_if_report_only ==
  /\ pc = 256
  /\ pc' = 258
  /\ UNCHANGED <<fields, op, result, events, at, digit_index, interactive_number>>

\* line 256: if phone.is_connected
handler_if ==
  /\ pc = 256
  /\ pc' = IF is_connected THEN 257 ELSE 258
  /\ UNCHANGED <<fields, op, result, events, at, digit_index, interactive_number>>

\* the steps of main and of the methods it calls
MainStep ==
  \/ main_construct
  \/ main_enter
  \/ main_sleep
  \/ main_input
  \/ main_if
  \/ dial_digit_check
  \/ dial_digit_sleep
  \/ dial_digit_append
  \/ dial_digit_pause
  \/ dial_number_validate
  \/ dial_number_loop
  \/ call_check
  \/ call_ring
  \/ call_connect
  \/ call_record
  \/ hang_up_check
  \/ hang_up_sleep
  \/ hang_up_disconnect
  \/ hang_up_clear
  \/ status_print

NextMain ==
  \/ MainStep
  \/ KeyboardInterrupt
  \/ handler_print
  \/ handler_if

\* main with at most one KeyboardInterrupt
SpecMain == InitMain /\ [][NextMain]_vars

\* main with no interrupt: a sequential program, every step is eventually taken
SpecMainQuiet == InitMain /\ [][MainStep]_vars /\ WF_vars(MainStep)

(* ---- notions used by the properties ---- *)
\* s is a non-empty string of the characters '0'-'9'
IsAsciiDigitString(s) == Len(s) > 0 /\ \A i \in 1..Len(s) : s[i] \in ASCII_DIGITS

\* d is a single character in '0'-'9'
IsSingleAsciiDigit(d) == Len(d) = 1 /\ d[1] \in ASCII_DIGITS

\* the characters of a buffer of one-character strings, in order
Chars(buf) == [i \in 1..Len(buf) |-> buf[i][1]]

IsPrefix(a, b) == Len(a) <= Len(b) /\ \A i \in 1..Len(a) : a[i] = b[i]

\* 1-based position of the first character of n outside '0'-'9', Len(n)+1 if none
FirstBad(n) ==
  CHOOSE i \in 1..(Len(n) + 1) :
     /\ \A j \in 1..(i - 1) : n[j] \in ASCII_DIGITS
     /\ i = Len(n) + 1 \/ n[i] \notin ASCII_DIGITS

(* ---- C1 ---- *)
\* C1: every element of the dialed buffer is a single character in '0'..'9',
\* in every state reachable by construction followed by any operations.
C1_DialedDigitsOnly ==
  \A i \in 1..Len(dialed_number) : IsSingleAsciiDigit(dialed_number[i])

(* ---- C2 ---- *)
\* C2: _validate_phone_number succeeds exactly for the non-empty strings of
\* '0'-'9', raises InvalidNumber for every other string, and changes no field.
C2_ValidateAsciiDigitsOnly ==
  [][op' = "_validate_phone_number" =>
       /\ UNCHANGED fields
       /\ \A n \in Strings : validate(n) =>
            result' = (IF IsAsciiDigitString(n) THEN ReturnedNone ELSE InvalidNumber)]_vars

(* ---- C3 ---- *)
\* C3 as stated: while connected, every dial_digit and every dial_number
\* raises AlreadyConnected and leaves the fields unchanged.
C3_DialWhileConnectedAlwaysAlreadyConnected ==
  [][is_connected /\ op' \in {"dial_digit", "dial_number"} =>
       result' = AlreadyConnected /\ UNCHANGED fields]_vars

\* C3 amended: while connected, every dial_digit raises AlreadyConnected;
\* every dial_number raises AlreadyConnected when its argument passes
\* _validate_phone_number and InvalidNumber when it does not; the fields are
\* unchanged in every case.
C3_DialWhileConnectedRejected ==
  [][is_connected /\ op' \in {"dial_digit", "dial_number"} =>
       /\ UNCHANGED fields
       /\ op' = "dial_digit" => result' = AlreadyConnected
       /\ op' = "dial_number" =>
            \A n \in Strings : dial_number(n) =>
               result' = (IF _validate_phone_number(n) = ReturnedNone
                          THEN AlreadyConnected ELSE InvalidNumber)]_vars

C3_Witness == is_connected /\ op = "dial_number" /\ result = InvalidNumber

(* ---- C4 ---- *)
\* C4 as stated: call with an empty buffer raises NothingDialed, leaves
\* call_log and the buffer unchanged, and connected is false afterwards.
C4_EmptyCallLeavesDisconnected ==
  [][op' = "call" /\ dialed_number = <<>> =>
       /\ result' = NothingDialed
       /\ UNCHANGED <<call_log, dialed_number>>
       /\ is_connected' = FALSE]_vars

\* C4 amended: call with an empty buffer raises NothingDialed and leaves
\* call_log, the buffer and connected unchanged (connected stays true when the
\* buffer was emptied by clear during a call).
C4_EmptyCallRejected ==
  [][op' = "call" /\ dialed_number = <<>> =>
       /\ result' = NothingDialed
       /\ UNCHANGED <<call_log, dialed_number, is_connected>>]_vars

C4_Witness ==
  op = "call" /\ result = NothingDialed /\ is_connected /\ call_log # <<>>

(* ---- C5 ---- *)
\* C5: every call with a non-empty buffer returns true; afterwards connected
\* is true, call_log is the previous log plus one entry, the entry is the
\* buffer's characters in order, and the buffer is unchanged.
C5_CallAppendsDialedNumber ==
  [][op' = "call" /\ dialed_number # <<>> =>
       /\ result' = ReturnedTrue
       /\ is_connected' = TRUE
       /\ Len(call_log') = Len(call_log) + 1
       /\ SubSeq(call_log', 1, Len(call_log)) = call_log
       /\ call_log'[Len(call_log')] = Chars(dialed_number)
       /\ dialed_number' = dialed_number]_vars

C5_Witness ==
  /\ op = "call" /\ result = ReturnedTrue /\ is_connected
  /\ Len(dialed_number) = 2 /\ dialed_number[1] # dialed_number[2]
  /\ call_log[Len(call_log)] = Chars(dialed_number)

(* ---- C6 ---- *)
\* C6: hang_up never raises; from connected it disconnects and empties the
\* buffer, from not connected it changes nothing; call_log is never changed.
C6_HangUpEffect ==
  [][op' = "hang_up" =>
       /\ result' = ReturnedNone
       /\ call_log' = call_log
       /\ IF is_connected
          THEN is_connected' = FALSE /\ dialed_number' = <<>>
          ELSE UNCHANGED <<dialed_number, is_connected>>]_vars

C6_Witness ==
  op = "hang_up" /\ ~is_connected /\ dialed_number = <<>> /\ call_log # <<>>

(* ---- C7 ---- *)
\* C7: not connected, dial_digit(d) succeeds exactly when d is a single
\* character in '0'-'9' and then appends exactly d at the end; for any other
\* argument it raises InvalidDigit; nothing else changes.
C7_DialDigitAppends ==
  [][~is_connected /\ op' = "dial_digit" =>
       /\ UNCHANGED <<is_connected, call_log>>
       /\ \A d \in Strings : dial_digit(d) =>
            IF IsSingleAsciiDigit(d)
            THEN result' = ReturnedNone /\ dialed_number' = dialed_number \o <<d>>
            ELSE result' = InvalidDigit /\ dialed_number' = dialed_number]_vars

C7_Witness ==
  /\ op = "dial_digit" /\ result = ReturnedNone /\ ~is_connected
  /\ Len(dialed_number) = 2 /\ dialed_number[2] = <<"0">>

(* ---- C8 ---- *)
\* C8: not connected, dial_number(n) appends nothing when validation fails,
\* all characters of n in order on success, and exactly the characters before
\* the first failing one when a dial_digit raises; connected and call_log are
\* unchanged in every case.
C8_DialNumberNoRollback ==
  [][~is_connected /\ op' = "dial_number" =>
       /\ UNCHANGED <<is_connected, call_log>>
       /\ \A n \in Strings : dial_number(n) =>
            IF _validate_phone_number(n) # ReturnedNone
            THEN result' = InvalidNumber /\ dialed_number' = dialed_number
            ELSE LET i == FirstBad(n) IN
                   /\ dialed_number' = dialed_number \o [j \in 1..(i - 1) |-> <<n[j]>>]
                   /\ result' = (IF i > Len(n) THEN ReturnedNone ELSE InvalidDigit)]_vars

C8_Witness ==
  /\ op = "dial_number" /\ result = InvalidDigit /\ ~is_connected
  /\ Len(dialed_number) = 2

(* ---- C9 ---- *)
\* C9: call_log is append-only: every operation leaves the previous log as a
\* prefix, and only a successful call makes it longer, by exactly one.
C9_CallLogAppendOnly ==
  [][/\ IsPrefix(call_log, call_log')
     /\ Len(call_log') # Len(call_log) =>
          /\ op' = "call" /\ result' = ReturnedTrue
          /\ Len(call_log') = Len(call_log) + 1]_vars

C9_Witness == op = "clear" /\ call_log # <<>> /\ ~is_connected

(* ---- C10 ---- *)
\* C10: connected is false after construction, only a successful call turns
\* it on, only hang_up turns it off, and no other operation changes it.
C10_ConnectedLifecycle ==
  /\ [](op = "__init__" => ~is_connected)
  /\ [][is_connected' # is_connected =>
          IF is_connected'
          THEN op' = "call" /\ result' = ReturnedTrue
          ELSE op' = "hang_up"]_vars

C10_Witness == op = "clear" /\ is_connected

(* ---- C11 ---- *)
\* C11: clear never raises and empties the buffer in every state, connected or
\* not, and leaves connected and call_log unchanged.
C11_ClearEffect ==
  [][op' = "clear" =>
       /\ result' = ReturnedNone
       /\ dialed_number' = <<>>
       /\ UNCHANGED <<is_connected, call_log>>]_vars

C11_Witness ==
  op = "clear" /\ is_connected /\ dialed_number = <<>> /\ Len(call_log) = 1

(* ---- C12 ---- *)
\* Idle, Dialing or Connected
PhoneState(buf, connected) ==
  IF connected THEN "Connected" ELSE IF buf = <<>> THEN "Idle" ELSE "Dialing"

\* C12: the state is always Idle, Dialing or Connected, and every operation
\* that changes it makes one of the listed transitions: dial_digit/dial_number
\* from Idle or Dialing to Dialing, call from Dialing to Connected, hang_up
\* from Connected to Idle, clear from Dialing to Idle; dialing from Connected
\* and call from Idle change nothing of it.
C12_ListedTransitions ==
  [][LET before == PhoneState(dialed_number, is_connected)
         after == PhoneState(dialed_number', is_connected')
     IN /\ before # after =>
             \/ /\ op' \in {"dial_digit", "dial_number"}
                /\ before \in {"Idle", "Dialing"} /\ after = "Dialing"
             \/ op' = "call" /\ before = "Dialing" /\ after = "Connected"
             \/ op' = "hang_up" /\ before = "Connected" /\ after = "Idle"
             \/ op' = "clear" /\ before = "Dialing" /\ after = "Idle"
        /\ op' \in {"dial_digit", "dial_number"} /\ before = "Connected" => after = before
        /\ op' = "call" /\ before = "Idle" => after = before]_vars

C12_Witness ==
  /\ op = "hang_up" /\ events = <<Sleep(500)>>
  /\ PhoneState(dialed_number, is_connected) = "Idle"

(* ---- C13 ---- *)
\* C13: constructing with a number that passes validation gives the buffer
\* the characters of the number, connected false, an empty call_log and no
\* delay; a non-empty number that is not all '0'-'9' makes construction raise
\* InvalidNumber; with no number the buffer is empty and a first call raises
\* NothingDialed.
C13_Construction ==
  /\ [](op = "__init__" =>
          \A n \in Strings \cup {None} : init_with(n) =>
             /\ n # None /\ _validate_phone_number(n) = ReturnedNone =>
                  /\ result = ReturnedNone
                  /\ Chars(dialed_number) = n
                  /\ ~is_connected /\ call_log = <<>> /\ events = <<>>
             /\ n # None /\ n # <<>> /\ ~IsAsciiDigitString(n) =>
                  result = InvalidNumber
             /\ n = None => result = ReturnedNone /\ dialed_number = <<>>)
  /\ [][op = "__init__" /\ dialed_number = <<>> /\ op' = "call" =>
          result' = NothingDialed]_vars

(* ---- C17 ---- *)
\* the digits in the order of their pulse counts 1..10
DialOrder == <<"1", "2", "3", "4", "5", "6", "7", "8", "9", "0">>

PulsesOf(d) == CHOOSE k \in 1..10 : DialOrder[k] = d

\* C17: the dialing delay of a digit is its pulse count times 100 ms, with
\* pulse counts 1..9 for '1'..'9' and 10 for '0'; so the delay is strictly
\* increasing in the pulse count, the ten delays are distinct and '0' has the
\* largest, 1000 ms; and that is the first sleep of every successful dial_digit.
C17_PulseDelay ==
  /\ \A d \in ASCII_DIGITS :
        /\ PULSE_MAP[<<d>>] = PulsesOf(d)
        /\ delay_ms(<<d>>) = PulsesOf(d) * 100
        /\ delay_ms(<<d>>) <= delay_ms(<<"0">>)
  /\ delay_ms(<<"0">>) = 1000
  /\ \A d, e \in ASCII_DIGITS :
        /\ PULSE_MAP[<<d>>] < PULSE_MAP[<<e>>] => delay_ms(<<d>>) < delay_ms(<<e>>)
        /\ d # e => delay_ms(<<d>>) # delay_ms(<<e>>)
  /\ op = "dial_digit" /\ result = ReturnedNone =>
        events[1] = Sleep(PulsesOf(dialed_number[Len(dialed_number)][1]) * 100)

C17_Witness ==
  /\ op = "dial_digit" /\ result = ReturnedNone
  /\ dialed_number[Len(dialed_number)] = <<"0">>
  /\ events[1] = Sleep(1000)

(* ---- C18 ---- *)
\* C18: every successful dial_digit sleeps for the pulse delay, appends the
\* digit, then takes exactly one inter-digit pause, also for the first digit
\* dialed into an empty buffer and for a digit equal to the previous one.
C18_PauseAfterEveryDigit ==
  op = "dial_digit" /\ result = ReturnedNone =>
     events = << Sleep(delay_ms(dialed_number[Len(dialed_number)])),
                 Appended,
                 Sleep(INTER_DIGIT_DELAY) >>

(* ---- C19 ---- *)
\* C19: while connected, call_log is non-empty and the buffer is empty or
\* spells the last entry of call_log; every entry of call_log is non-empty.
C19_ConnectedMatchesLog ==
  /\ is_connected =>
        /\ call_log # <<>>
        /\ \/ dialed_number = <<>>
           \/ Chars(dialed_number) = call_log[Len(call_log)]
  /\ \A k \in 1..Len(call_log) : call_log[k] # <<>>

C19_Witness ==
  is_connected /\ Len(dialed_number) = 2 /\ op = "status"

(* ---- C20 ---- *)
\* C20: call is not rejected during a call: connected with a non-empty
\* buffer, call returns true, stays connected and appends an entry equal to
\* the previous last one, so call_log can hold more than one entry for a call
\* that no hang_up has ended yet.
C20_CallWhileConnected ==
  [][is_connected /\ dialed_number # <<>> /\ op' = "call" =>
       /\ result' = ReturnedTrue
       /\ is_connected' = TRUE
       /\ call_log' = Append(call_log, call_log[Len(call_log)])]_vars

C20_Witness ==
  /\ op = "call" /\ result = ReturnedTrue /\ is_connected
  /\ Len(call_log) = 2 /\ call_log[1] = call_log[2]
  /\ Chars(dialed_number) = call_log[2]

(* ---- C14 ---- *)
\* C14: a single KeyboardInterrupt at any point of main, also during the
\* ringing delay of call, the call duration and the delay inside hang_up:
\* the phone is as the interrupt found it when the handler tests it, hang_up
\* is invoked exactly when connected is true then, and the phone is not
\* connected when main is left.
C14_InterruptCleanup ==
  /\ [][pc' \in {255, 256} /\ pc' # pc => UNCHANGED fields]_vars
  /\ [][pc = 256 /\ pc' # pc => (pc' = 257 <=> is_connected)]_vars
  /\ [][pc = 257 /\ at = 0 /\ at' # at => op' = "hang_up" /\ at' = 148]_vars
  /\ [](pc = 258 => ~is_connected)

C14_Witness == pc = 257 /\ at = 159 /\ ~is_connected /\ dialed_number # <<>>

(* ---- C15 ---- *)
\* C15: with no interrupt, for every line read, main reaches its final status
\* report: every error a phone operation raises is caught where it is called,
\* none leaves main, and the phone is not connected at the final status.
C15_ErrorsCaught ==
  /\ <>(pc = 253)
  /\ [](pc # 258 /\ (op = "main" => result.type = "return"))
  /\ [](pc = 253 => ~is_connected)

C15_Witness ==
  pc = 253 /\ interactive_number = <<"A">> /\ Len(call_log) = 2 /\ ~is_connected

(* ---- C16 ---- *)
\* call_log just before the prompt: the two numbers main has called
LogBeforePrompt ==
  << <<"5", "5", "5", "1", "2", "3", "4">>,
     <<"2", "1", "2", "5", "5", "5", "1", "2", "3", "4">> >>

\* C16: at the final status, when the line read (stripped) is not a non-empty
\* string of '0'-'9', the buffer and call_log are as just before the prompt
\* (empty buffer, the two demonstration calls); when it is, call_log has
\* gained exactly that number and the buffer is empty again.
C16_InteractiveInputValidated ==
  pc = 253 =>
     /\ dialed_number = <<>>
     /\ call_log = IF IsAsciiDigitString(interactive_number)
                   THEN Append(LogBeforePrompt, interactive_number)
                   ELSE LogBeforePrompt
====
